---------------------------- MODULE Spec2Model ----------------------------
(***************************************************************************)
(* Model of the pose-graph optimizer of 2d_lidar_slam:                     *)
(*   src/2d_lidar_slam/src/util.py   warp2pi,                              *)
(*                                   upper_triangular_matrix_to_full_matrix*)
(*   src/2d_lidar_slam/src/graph.py  Graph (_link_edges, add_edge,         *)
(*                                   add_vertex, calc_chi2,                *)
(*                                   _calc_chi2_grad_hess, optimize)       *)
(*                                                                         *)
(* Numbers.  Angles live on a grid of pi/PiUnits, so that pi, -pi and the  *)
(* odd multiples of pi are exact grid points.  A float is an integer on    *)
(* that grid, or NaN.                                                      *)
(*                                                                         *)
(* Specifications:                                                         *)
(*   Spec          Graph() followed by any sequence of add_vertex/add_edge;*)
(*   SpecOpt       Graph(edges, vertices) followed by one optimize call,   *)
(*                 one step per loop phase, on graphs of at most MaxV      *)
(*                 vertices and MaxE edges;                                *)
(*   SpecOptSmall  the same on graphs of at most MaxSmallV vertices and    *)
(*                 MaxSmallE edges;                                        *)
(*   SpecUtil      calls of the two pure functions of util.py.             *)
(***************************************************************************)
EXTENDS Integers, Sequences, FiniteSets

VARIABLES
    vertices,        \* Graph._vertices: sequence of [id, index, pose]
    edges,           \* Graph._edges: sequence of [vertex_ids, estimate, information, vertices]
    error,           \* the exception the last call raised, or "none"
    call,            \* the last call made on the graph and its arguments
    pc,              \* position of the optimize call
    i,               \* optimize: loop variable i (Unbound before the loop binds it)
    prev_chi2_err,   \* optimize: prev_chi2_err
    chi2,            \* Graph._chi2
    gradient,        \* Graph._gradient
    hessian,         \* Graph._hessian
    solves,          \* number of spsolve invocations of the optimize call
    pose_at_call,    \* the poses when optimize was called
    util             \* the last call of a util.py function and its result

vars == <<vertices, edges, error, call, pc, i, prev_chi2_err, chi2, gradient,
          hessian, solves, pose_at_call, util>>

graphVars == <<vertices, edges, error, call>>
optVars == <<pc, i, prev_chi2_err, chi2, gradient, hessian, solves, pose_at_call>>

-----------------------------------------------------------------------------
(* Bounds of the model *)

PiUnits == 2        \* grid points per pi
MaxAngle == 9       \* warp2pi inputs range over -MaxAngle..MaxAngle grid points
MaxN == 4           \* upper_triangular_matrix_to_full_matrix: n in 1..MaxN
MaxV == 3           \* Spec: add_vertex is called while fewer than MaxV vertices
MaxE == 2           \* at most MaxE edges
MaxIter == 2        \* optimize: max_iter in 0..MaxIter
MaxSmallV == 2      \* SpecOptSmall: at most MaxSmallV vertices
MaxSmallE == 1      \* SpecOptSmall: at most MaxSmallE edges

VertexIdAt(k) == 2 * k + 3                          \* the k-th id handed out
VertexIds == {VertexIdAt(k) : k \in 0 .. MaxV - 1}   \* ids given to add_vertex / add_edge
TolVals == {<<1, 2>>, <<1, 1>>}                     \* tol as <<numerator, denominator>>
PoseVals == {0, 1}           \* initial headings
MeasVals == {0, 1}           \* edge measurements
InfoVals == {1, 2}           \* edge information (positive)
BitVals == {0, 1}            \* entries of the compact upper triangle

Pi == PiUnits
TwoPi == 2 * PiUnits

\* Not-a-number: absorbing in arithmetic, false in every comparison.
NaN == -999999

None == "None"

\* The loop variable i before the for statement binds it.
Unbound == -1

-----------------------------------------------------------------------------
(* Float arithmetic with NaN *)

IsNaN(x) == x = NaN
FAdd(x, y) == IF IsNaN(x) \/ IsNaN(y) THEN NaN ELSE x + y
FSub(x, y) == IF IsNaN(x) \/ IsNaN(y) THEN NaN ELSE x - y
FMul(x, y) == IF IsNaN(x) \/ IsNaN(y) THEN NaN ELSE x * y
FNeg(x) == IF IsNaN(x) THEN NaN ELSE 0 - x
FLess(x, y) == ~IsNaN(x) /\ ~IsNaN(y) /\ x < y
FGreater(x, y) == ~IsNaN(x) /\ ~IsNaN(y) /\ x > y

-----------------------------------------------------------------------------
(* util.py *)

RECURSIVE WarpDown(_)
WarpDown(a) == IF FGreater(a, Pi) THEN WarpDown(a - TwoPi) ELSE a

RECURSIVE WarpUp(_)
WarpUp(a) == IF FLess(a, 0 - Pi) THEN WarpUp(a + TwoPi) ELSE a

\* A single wrap instead of the loop.
warp2pi_once(angle_rad) ==
    IF FGreater(angle_rad, Pi) THEN angle_rad - TwoPi
    ELSE IF FLess(angle_rad, 0 - Pi) THEN angle_rad + TwoPi
    ELSE angle_rad

warp2pi(angle_rad) ==
    IF FGreater(angle_rad, Pi) THEN WarpDown(angle_rad)
    ELSE IF FLess(angle_rad, 0 - Pi) THEN WarpUp(angle_rad)
    ELSE angle_rad

\* Pairs (r, c) of an n x n matrix, 0-based.
Cells(n) == (0 .. n - 1) \X (0 .. n - 1)

RowMajorLess(p, q) == p[1] < q[1] \/ (p[1] = q[1] /\ p[2] < q[2])

\* The cells of S in row-major order, as numpy's *_indices return them.
RowMajor(S) ==
    [k \in 1 .. Cardinality(S) |->
        CHOOSE p \in S : Cardinality({q \in S : RowMajorLess(q, p)}) = k - 1]

\* np.triu_indices(n, k): cells with c >= r + k.
triu_indices(n, k) == RowMajor({p \in Cells(n) : p[2] >= p[1] + k})

\* np.tril_indices(n, k): cells with c <= r + k.
tril_indices(n, k) == RowMajor({p \in Cells(n) : p[2] <= p[1] + k})

\* Position of cell p in the index sequence s (0 when absent).
PosIn(s, p) == IF \E k \in DOMAIN s : s[k] = p
               THEN CHOOSE k \in DOMAIN s : s[k] = p ELSE 0

TriLen(n) == (n * (n + 1)) \div 2

upper_triangular_matrix_to_full_matrix(a, n) ==
    LET triu0 == triu_indices(n, 0)
        triu1 == triu_indices(n, 1)
        tril1 == tril_indices(n, -1)
        zeros == [p \in Cells(n) |-> 0]
        \* mat[triu0] = arr
        m1 == [p \in Cells(n) |->
                 IF PosIn(triu0, p) > 0 THEN a[PosIn(triu0, p)] ELSE zeros[p]]
        \* mat[tril1] = mat[triu1]: the k-th lower cell takes the k-th upper cell
        m2 == [p \in Cells(n) |->
                 IF PosIn(tril1, p) > 0 THEN m1[triu1[PosIn(tril1, p)]] ELSE m1[p]]
    IN  m2

-----------------------------------------------------------------------------
(* SpecUtil: calls of the util.py functions *)

NoCall == [fn |-> "none"]

UtilRest ==
    /\ vertices = <<>> /\ edges = <<>> /\ error = "none" /\ call = NoCall
    /\ pc = "idle" /\ i = Unbound /\ prev_chi2_err = -1
    /\ chi2 = None /\ gradient = None /\ hessian = None
    /\ solves = 0 /\ pose_at_call = <<>>

\* The arguments of the call about to be made.
InitUtil ==
    /\ \/ \E a \in (0 - MaxAngle) .. MaxAngle :
             util = [fn |-> "warp2pi", arg |-> a, state |-> "called", result |-> None]
       \/ \E n \in 1 .. MaxN :
             \E a \in [1 .. TriLen(n) -> BitVals] :
                util = [fn |-> "expand", arg |-> [arr |-> a, n |-> n],
                        state |-> "called", result |-> None]
    /\ UtilRest

Warp ==
    /\ util.fn = "warp2pi" /\ util.state = "called"
    /\ util' = [util EXCEPT !.state = "returned", !.result = warp2pi(util.arg)]
    /\ UNCHANGED <<graphVars, optVars>>

\* warp2pi called on the value the previous warp2pi call returned.
WarpAgain ==
    /\ util.fn = "warp2pi" /\ util.state = "returned"
    /\ util' = [util EXCEPT !.arg = util.result, !.result = warp2pi(util.result)]
    /\ UNCHANGED <<graphVars, optVars>>

Expand ==
    /\ util.fn = "expand" /\ util.state = "called"
    /\ util' = [util EXCEPT !.state = "returned",
                   !.result = upper_triangular_matrix_to_full_matrix(util.arg.arr, util.arg.n)]
    /\ UNCHANGED <<graphVars, optVars>>

NextUtil == Warp \/ WarpAgain \/ Expand

SpecUtil == InitUtil /\ [][NextUtil]_vars

-----------------------------------------------------------------------------
(* graph.py: linking *)

\* Vertex(vertex_id=id, pose=pose): index is set by _link_edges.
Vertex(id, pose) == [id |-> id, index |-> None, pose |-> pose]

\* EdgeOdometry(vertex_ids, information, estimate): vertices is set by
\* _link_edges; a vertex object is named by its position in _vertices.
EdgeOdometry(vertex_ids, information, estimate) ==
    [vertex_ids |-> vertex_ids, information |-> information,
     estimate |-> estimate, vertices |-> None]

IdsOf(vs) == {vs[k].id : k \in DOMAIN vs}

\* id_index_dict: enumerate() visits the vertices in order and a later vertex
\* with the same id replaces the entry of an earlier one.
id_index_dict(vs) ==
    [v_id \in IdsOf(vs) |->
        CHOOSE k \in 0 .. Len(vs) - 1 :
            /\ vs[k + 1].id = v_id
            /\ \A j \in 0 .. Len(vs) - 1 : vs[j + 1].id = v_id => j <= k]

Resolves(e, vs) == \A j \in DOMAIN e.vertex_ids : e.vertex_ids[j] \in IdsOf(vs)

\* The first edge whose list comprehension raises KeyError (0: none does).
FirstKeyError(vs, es) ==
    IF \A k \in DOMAIN es : Resolves(es[k], vs) THEN 0
    ELSE CHOOSE k \in DOMAIN es :
            /\ ~Resolves(es[k], vs)
            /\ \A j \in DOMAIN es : ~Resolves(es[j], vs) => k <= j

\* _link_edges on the lists vs and es: the vertex loop always completes, the
\* edge loop stops at the first KeyError and leaves the later edges as they were.
_link_edges(vs, es) ==
    LET dict == id_index_dict(vs)
        bad == FirstKeyError(vs, es)
    IN  [vertices |-> [k \in DOMAIN vs |-> [vs[k] EXCEPT !.index = dict[vs[k].id]]],
         edges |-> [k \in DOMAIN es |->
                      IF bad = 0 \/ k < bad
                      THEN [es[k] EXCEPT !.vertices =
                              [j \in DOMAIN es[k].vertex_ids |-> dict[es[k].vertex_ids[j]]]]
                      ELSE es[k]],
         error |-> IF bad = 0 THEN "none" ELSE "KeyError"]

OptRest ==
    /\ pc = "idle" /\ i = Unbound /\ prev_chi2_err = -1
    /\ chi2 = None /\ gradient = None /\ hessian = None
    /\ solves = 0 /\ pose_at_call = <<>>

\* Graph([], [])
Init ==
    /\ vertices = <<>> /\ edges = <<>> /\ error = "none"
    /\ call = [op |-> "__init__"]
    /\ OptRest /\ util = NoCall

add_vertex(id, pose) ==
    LET linked == _link_edges(Append(vertices, Vertex(id, pose)), edges)
    IN  /\ vertices' = linked.vertices
        /\ edges' = linked.edges
        /\ error' = linked.error
        /\ call' = [op |-> "add_vertex", id |-> id, pose |-> pose]

add_edge(vertex_ids, measurement, information) ==
    LET linked == _link_edges(vertices,
                      Append(edges, EdgeOdometry(vertex_ids, information, measurement)))
    IN  /\ vertices' = linked.vertices
        /\ edges' = linked.edges
        /\ error' = linked.error
        /\ call' = [op |-> "add_edge", vertex_ids |-> vertex_ids]

AddVertex ==
    /\ Len(vertices) < MaxV
    /\ \E id \in VertexIds, pose \in PoseVals : add_vertex(id, pose)
    /\ UNCHANGED <<optVars, util>>

AddEdge ==
    /\ Len(edges) < MaxE
    /\ \E a \in VertexIds, b \in VertexIds, m \in MeasVals, w \in InfoVals :
          add_edge(<<a, b>>, m, w)
    /\ UNCHANGED <<optVars, util>>

Next == AddVertex \/ AddEdge

Spec == Init /\ [][Next]_vars

-----------------------------------------------------------------------------
(* Per-edge quantities and the accumulator.  The heading component of the  *)
(* SE(2) odometry edge: residual warp2pi(to - from - estimate), Jacobians  *)
(* -1 (from) and +1 (to), pose dimension 1.                                *)

\* The vertex object the edge holds at position j (1: from, 2: to).
VertexOf(vs, e, j) == vs[e.vertices[j] + 1]

\* residual(): the manifold error, its angle run through warp2pi.
calc_error(vs, e) ==
    warp2pi(FSub(FSub(VertexOf(vs, e, 2).pose, VertexOf(vs, e, 1).pose), e.estimate))

\* chi2(): r^T . information . r
edge_calc_chi2(vs, e) == FMul(FMul(calc_error(vs, e), e.information), calc_error(vs, e))

\* gradientHessianContribution(): the local quantities keyed by the indices of
\* the edge's two endpoints, as insertion-ordered dicts (sequences of <<key, value>>).
calc_chi2_gradient_hessian(vs, e) ==
    LET f == VertexOf(vs, e, 1).index
        t == VertexOf(vs, e, 2).index
        r == calc_error(vs, e)
        w == e.information
    IN  [chi2 |-> edge_calc_chi2(vs, e),
         gradient |-> << <<f, FMul(FMul(-1, w), r)>>, <<t, FMul(w, r)>> >>,
         hessian |-> << <<<<f, f>>, w>>, <<<<f, t>>, 0 - w>>, <<<<t, t>>, w>> >>]

\* d[key] += val on an insertion-ordered dict whose missing entries are zero.
DictAdd(d, key, val) ==
    IF \E k \in DOMAIN d : d[k][1] = key
    THEN [k \in DOMAIN d |-> IF d[k][1] = key THEN <<key, FAdd(d[k][2], val)>> ELSE d[k]]
    ELSE Append(d, <<key, val>>)

RECURSIVE DictAddAll(_, _)
DictAddAll(d, items) ==
    IF items = <<>> THEN d
    ELSE DictAddAll(DictAdd(d, Head(items)[1], Head(items)[2]), Tail(items))

\* _Chi2GradientHessian(dim): the identity of the fold.
Chi2GradientHessian == [chi2 |-> 0, gradient |-> <<>>, hessian |-> <<>>]

\* _Chi2GradientHessian.update: adds matching keys and unions the others.
update(acc, incoming) ==
    [chi2 |-> FAdd(acc.chi2, incoming.chi2),
     gradient |-> DictAddAll(acc.gradient, incoming.gradient),
     hessian |-> DictAddAll(acc.hessian, incoming.hessian)]

\* reduce(update, (e.calc_chi2_gradient_hessian() for e in es), initial)
RECURSIVE reduce(_, _, _)
reduce(vs, es, acc) ==
    IF es = <<>> THEN acc
    ELSE reduce(vs, Tail(es), update(acc, calc_chi2_gradient_hessian(vs, Head(es))))

-----------------------------------------------------------------------------
(* graph.py: evaluation *)

\* for idx, contrib in gradient.items(): gradient[idx] += contrib
RECURSIVE PopulateGradient(_, _)
PopulateGradient(g, items) ==
    IF items = <<>> THEN g
    ELSE PopulateGradient(
            [g EXCEPT ![Head(items)[1]] = FAdd(g[Head(items)[1]], Head(items)[2])],
            Tail(items))

\* The block is written at (row, col) and, off the diagonal, its transpose at
\* (col, row); both writes replace what the cell held.
WriteBlock(h, row_idx, col_idx, contrib) ==
    [h EXCEPT ![<<row_idx, col_idx>>] = contrib, ![<<col_idx, row_idx>>] = contrib]

\* for (row_idx, col_idx), contrib in hessian.items(): ...
RECURSIVE PopulateHessian(_, _)
PopulateHessian(h, items) ==
    IF items = <<>> THEN h
    ELSE PopulateHessian(
            WriteBlock(h, Head(items)[1][1], Head(items)[1][2], Head(items)[2]),
            Tail(items))

\* _calc_chi2_grad_hess over the vertex list vs and the edge list es.
_calc_chi2_grad_hess(vs, es) ==
    LET n == Len(vs)
        chi2_gradient_hessian == reduce(vs, es, Chi2GradientHessian)
    IN  [chi2 |-> chi2_gradient_hessian.chi2,
         gradient |-> PopulateGradient([k \in 0 .. n - 1 |-> 0],
                                       chi2_gradient_hessian.gradient),
         hessian |-> PopulateHessian([p \in Cells(n) |-> 0],
                                     chi2_gradient_hessian.hessian)]

RECURSIVE SumChi2(_, _)
SumChi2(vs, es) ==
    IF es = <<>> THEN 0 ELSE FAdd(edge_calc_chi2(vs, Head(es)), SumChi2(vs, Tail(es)))

\* calc_chi2: sum(...) over no edges is the int 0, and 0[0, 0] raises TypeError.
calc_chi2(vs, es) ==
    IF es = <<>> THEN [error |-> "TypeError", chi2 |-> None]
    ELSE [error |-> "none", chi2 |-> SumChi2(vs, es)]

-----------------------------------------------------------------------------
(* The linear solve: scipy.sparse.linalg.spsolve(A, b).  The solution is   *)
(* computed by Cramer's rule and rounded to the grid; on an exactly        *)
(* singular matrix spsolve warns and returns a vector filled with NaN.     *)

Min(S) == CHOOSE x \in S : \A y \in S : x <= y

\* (-1)^(number of columns of cols left of c)
Sign(cols, c) == IF Cardinality({d \in cols : d < c}) % 2 = 0 THEN 1 ELSE -1

\* Laplace expansion along the first row of rows; DetRow sums over the columns cs.
RECURSIVE Det(_, _, _), DetRow(_, _, _, _)
Det(h, rows, cols) ==
    IF rows = {} THEN 1 ELSE DetRow(h, rows, cols, cols)
DetRow(h, rows, cols, cs) ==
    IF cs = {} THEN 0
    ELSE LET r == Min(rows)
             c == Min(cs)
         IN  Sign(cols, c) * h[<<r, c>>] * Det(h, rows \ {r}, cols \ {c})
               + DetRow(h, rows, cols, cs \ {c})

\* p / q rounded to the nearest grid point (q # 0).
RoundDiv(p, q) ==
    IF q > 0 THEN (2 * p + q) \div (2 * q) ELSE (2 * (0 - p) - q) \div (2 * (0 - q))

spsolve(A, b) ==
    LET N == DOMAIN b
        det == Det(A, N, N)
        Ak(k) == [p \in N \X N |-> IF p[2] = k THEN b[p[1]] ELSE A[p]]
    IN  IF det = 0 \/ \E k \in N : IsNaN(b[k])
        THEN [k \in N |-> NaN]
        ELSE [k \in N |-> RoundDiv(Det(Ak(k), N, N), det)]

-----------------------------------------------------------------------------
(* graph.py: optimize(tol, max_iter, fix_first_pose) *)

\* The value the for statement binds to i next.
NextI == IF i = Unbound THEN 0 ELSE i + 1

\* rel_diff < tol, with rel_diff = (prev - chi2) / (prev + EPS) and tol = num/den.
\* EPS is positive and below the grid: prev + EPS is prev in float64 from 2 on
\* and lies strictly between prev and the next grid point below 2.
RelDiffBelowTol(prev, c, t) ==
    /\ ~IsNaN(prev) /\ ~IsNaN(c)
    /\ IF prev >= 2 \/ t[1] <= 0
       THEN (prev - c) * t[2] < t[1] * prev
       ELSE (prev - c) * t[2] <= t[1] * prev

\* The test of lines 119-123 with <= for <.
ShouldReturnNonStrict(iter, c, prev, t) ==
    iter > 0 /\ ~FGreater(c, prev) /\ ~IsNaN(c) /\ ~IsNaN(prev) /\ RelDiffBelowTol(prev, c, t)

\* if i > 0: if (self._chi2 < prev_chi2_err) and rel_diff < tol: return
ShouldReturn(iter, c, prev, t) ==
    iter > 0 /\ FLess(c, prev) /\ RelDiffBelowTol(prev, c, t)

\* hessian[:dim, :] = 0; hessian[:, :dim] = 0; hessian[:dim, :dim] += eye(dim)
FixHessian(h) ==
    [p \in DOMAIN h |-> IF p = <<0, 0>> THEN 1
                        ELSE IF p[1] = 0 \/ p[2] = 0 THEN 0 ELSE h[p]]

\* gradient[:dim] = 0
FixGradient(g) == [g EXCEPT ![0] = 0]

\* v.pose += PoseSE2.from_array(dxi): the heading is re-normalized.
Retract(pose, dxi) == warp2pi(FAdd(pose, dxi))

Poses(vs) == [k \in DOMAIN vs |-> vs[k].pose]

\* Graph(edges, vertices) on lists with distinct ids and edges between two
\* different vertices of the list.
VertexLists(n) ==
    {[k \in 1 .. n |-> Vertex(VertexIdAt(k - 1), ps[k])] : ps \in [1 .. n -> PoseVals]}

EdgeKinds(n) ==
    {EdgeOdometry(<<VertexIdAt(ab[1]), VertexIdAt(ab[2])>>, w, m) :
        ab \in {p \in Cells(n) : p[1] # p[2]}, w \in InfoVals, m \in MeasVals}

EdgeLists(n, maxe) == UNION {[1 .. k -> EdgeKinds(n)] : k \in 0 .. maxe}

\* Graph(edges, vertices) on lists of at most maxv vertices and maxe edges.
InitGraph(maxv, maxe) ==
    /\ \E n \in 0 .. maxv :
          \E vs \in VertexLists(n), es \in EdgeLists(n, maxe) :
             LET linked == _link_edges(vs, es)
             IN  /\ vertices = linked.vertices
                 /\ edges = linked.edges
                 /\ error = linked.error
    /\ call = [op |-> "__init__"]
    /\ OptRest /\ util = NoCall

InitOpt == InitGraph(MaxV, MaxE)

InitOptSmall == InitGraph(MaxSmallV, MaxSmallE)

\* The call: lines 106-109.  len(self._vertices[0]...) raises IndexError on an
\* empty vertex list.
Optimize ==
    /\ pc = "idle"
    /\ \E t \in TolVals, m \in 0 .. MaxIter, f \in BOOLEAN :
          call' = [op |-> "optimize", tol |-> t, max_iter |-> m, fix_first_pose |-> f]
    /\ IF Len(vertices) = 0
       THEN /\ pc' = "raised" /\ error' = "IndexError" /\ UNCHANGED prev_chi2_err
       ELSE /\ pc' = "loop" /\ error' = "none" /\ prev_chi2_err' = -1
    /\ pose_at_call' = Poses(vertices)
    /\ solves' = 0
    /\ UNCHANGED <<vertices, edges, i, chi2, gradient, hessian, util>>

\* Line 116: the loop binds i and evaluates chi2, gradient and Hessian.
Evaluate ==
    /\ pc = "loop" /\ NextI < call.max_iter
    /\ i' = NextI
    /\ LET ev == _calc_chi2_grad_hess(vertices, edges)
       IN  chi2' = ev.chi2 /\ gradient' = ev.gradient /\ hessian' = ev.hessian
    /\ pc' = "evaluated"
    /\ UNCHANGED <<vertices, edges, error, call, prev_chi2_err, solves, pose_at_call, util>>

\* Lines 119-123: the early return.
Converge ==
    /\ pc = "evaluated"
    /\ ShouldReturn(i, chi2, prev_chi2_err, call.tol)
    /\ pc' = "converged"
    /\ UNCHANGED <<vertices, edges, error, call, i, prev_chi2_err, chi2, gradient,
                   hessian, solves, pose_at_call, util>>

\* Lines 128-140: record chi2, fix the gauge, solve, retract every pose.
Step ==
    /\ pc = "evaluated"
    /\ ~ShouldReturn(i, chi2, prev_chi2_err, call.tol)
    /\ prev_chi2_err' = chi2
    /\ hessian' = IF call.fix_first_pose THEN FixHessian(hessian) ELSE hessian
    /\ gradient' = IF call.fix_first_pose THEN FixGradient(gradient) ELSE gradient
    /\ LET dx == spsolve(hessian', [k \in DOMAIN gradient' |-> FNeg(gradient'[k])])
       IN  vertices' = [k \in DOMAIN vertices |->
                          [vertices[k] EXCEPT !.pose = Retract(@, dx[k - 1])]]
    /\ solves' = solves + 1
    /\ pc' = "loop"
    /\ UNCHANGED <<edges, error, call, i, chi2, pose_at_call, util>>

\* Lines 141-144: the loop is exhausted; calc_chi2, then the report, which
\* reads i.
Finish ==
    /\ pc = "loop" /\ NextI >= call.max_iter
    /\ LET final == calc_chi2(vertices, edges)
       IN  IF final.error # "none"
           THEN /\ pc' = "raised" /\ error' = final.error /\ UNCHANGED chi2
           ELSE /\ chi2' = final.chi2
                /\ IF i = Unbound
                   THEN pc' = "raised" /\ error' = "UnboundLocalError"
                   ELSE pc' = "limit" /\ UNCHANGED error
    /\ UNCHANGED <<vertices, edges, call, i, prev_chi2_err, gradient, hessian,
                   solves, pose_at_call, util>>

NextOpt == Optimize \/ Evaluate \/ Converge \/ Step \/ Finish

SpecOpt == InitOpt /\ [][NextOpt]_vars

SpecOptSmall == InitOptSmall /\ [][NextOpt]_vars

-----------------------------------------------------------------------------
(* Claims about util.py, checked under SpecUtil *)

WarpReturned == util.fn = "warp2pi" /\ util.state = "returned"
ExpandReturned == util.fn = "expand" /\ util.state = "returned"

\* The symmetric matrix whose row-major upper triangle is a.
SymmetricOf(a, n) ==
    [p \in Cells(n) |->
        a[PosIn(triu_indices(n, 0),
                IF p[1] <= p[2] THEN p ELSE <<p[2], p[1]>>)]]

\* C7: for every n >= 1 and every symmetric n x n matrix M, the function
\* applied to the row-major upper triangle of M returns exactly M.
C7_RoundTrip ==
    ExpandReturned => util.result = SymmetricOf(util.arg.arr, util.arg.n)

\* C8 as stated: warp2pi(a) = r with -pi < r <= pi (never -pi), r - a a
\* multiple of 2 pi, and warp2pi(r) = r.
C8_HalfOpenRange ==
    WarpReturned =>
        /\ 0 - Pi < util.result /\ util.result <= Pi
        /\ (util.result - util.arg) % TwoPi = 0
        /\ warp2pi(util.result) = util.result

\* C8 amended: warp2pi(a) = r with -pi <= r <= pi, r - a a multiple of 2 pi,
\* and warp2pi(r) = r; an input already in [-pi, pi] (-pi included) is
\* returned as it is.
C8_ClosedRange ==
    WarpReturned =>
        /\ 0 - Pi <= util.result /\ util.result <= Pi
        /\ (util.result - util.arg) % TwoPi = 0
        /\ warp2pi(util.result) = util.result
        /\ (0 - Pi <= util.arg /\ util.arg <= Pi => util.result = util.arg)

\* A negative odd multiple of pi more than one turn away has been wrapped to -pi.
C8_Witness ==
    WarpReturned /\ util.arg = 0 - 3 * Pi /\ util.result = 0 - Pi

-----------------------------------------------------------------------------
(* Claims about the graph's structure, checked under Spec *)

\* C1: the id -> index map is a bijection between the ids of all vertices and
\* [0, |vertices|): the ids are distinct, the map has |vertices| entries and
\* each vertex's index is its position in the list.
C1_IdIndexBijection ==
    /\ \A j, k \in DOMAIN vertices : j # k => vertices[j].id # vertices[k].id
    /\ Cardinality(DOMAIN id_index_dict(vertices)) = Len(vertices)
    /\ \A k \in DOMAIN vertices : vertices[k].index = k - 1

\* C2: add_vertex with an id already in the graph fails with DuplicateId and
\* leaves the vertex list, the edge list and every index as they were.
C2_DuplicateIdRejected ==
    [][(call'.op = "add_vertex" /\ call'.id \in IdsOf(vertices))
          => (error' = "DuplicateId" /\ vertices' = vertices /\ edges' = edges)]_vars

\* C3: every edge in the edge list has both vertex_ids resolving to vertices
\* of the graph and its vertex references bound to exactly those vertices.
C3_EdgesResolved ==
    \A k \in DOMAIN edges :
        /\ Resolves(edges[k], vertices)
        /\ edges[k].vertices # None
        /\ \A j \in DOMAIN edges[k].vertex_ids :
              VertexOf(vertices, edges[k], j).id = edges[k].vertex_ids[j]

-----------------------------------------------------------------------------
(* Claims about optimize, checked under SpecOpt (C10: under SpecOptSmall) *)

Returned == pc \in {"converged", "limit"}

\* C4: after optimize(..., fix_first_pose=True) returns, the pose of the
\* vertex at index 0 equals its value before the call.
C4_FirstPoseFixed ==
    (Returned /\ call.fix_first_pose) => vertices[1].pose = pose_at_call[1]

\* C5: on a graph with one vertex and no edges optimize completes normally
\* with chi2 = 0 and never invokes the solver.
C5_SingleVertexNoSolve ==
    (Len(vertices) = 1 /\ edges = <<>>) =>
        /\ solves = 0
        /\ pc # "raised"
        /\ (Returned => chi2 = 0)

\* C6: on a graph with at least one vertex optimize never raises, invokes the
\* solver at most max_iter times, and at termination the stored chi2 is the
\* cost of the current poses.
C6_NoErrorWithinBudget ==
    Len(vertices) >= 1 =>
        /\ pc # "raised"
        /\ (call.op = "optimize" => solves <= call.max_iter)
        /\ (Returned => chi2 = SumChi2(vertices, edges))

\* The sum over all edges of their contributions to Hessian cell (r, c).
RECURSIVE SummedBlock(_, _, _, _)
SummedBlock(vs, es, r, c) ==
    IF es = <<>> THEN 0
    ELSE LET e == Head(es)
             f == VertexOf(vs, e, 1).index
             t == VertexOf(vs, e, 2).index
             own == IF r = c /\ r \in {f, t} THEN e.information
                    ELSE IF r # c /\ {r, c} = {f, t} THEN 0 - e.information
                    ELSE 0
         IN  own + SummedBlock(vs, Tail(es), r, c)

Permutations(n) == {p \in [1 .. n -> 1 .. n] : \A a, b \in 1 .. n : a # b => p[a] # p[b]}

\* C9: every Hessian cell holds the sum of the contributions of all edges
\* touching that vertex pair, and chi2, gradient and Hessian are the same for
\* every permutation of the edge list.
C9_SumAndOrderIndependent ==
    pc = "evaluated" =>
        /\ \A p \in Cells(Len(vertices)) :
              hessian[p] = SummedBlock(vertices, edges, p[1], p[2])
        /\ \A perm \in Permutations(Len(edges)) :
              _calc_chi2_grad_hess(vertices, [k \in DOMAIN edges |-> edges[perm[k]]])
                = [chi2 |-> chi2, gradient |-> gradient, hessian |-> hessian]

=============================================================================
